---- MODULE Spec2Model ----
(***************************************************************************)
(* A model of selfint/lsp-outside-the-editor.                              *)
(*                                                                         *)
(*   - the sequential JSON-RPC client            (src/src/lsp.rs)          *)
(*   - the stdout frame reader, the Writer and the Error Relay of the      *)
(*     multiplexer          (src/lsp-client/src/clients/stdio.rs)          *)
(*   - the reference graph builder        (src/code-graph/src/main.rs)     *)
(*   - the call collection and the usage scores                            *)
(*                                        (src/fn-usage/src/lib.rs)        *)
(*                                                                         *)
(* Each part has its own specification (SpecClient, SpecReader,            *)
(* SpecWorkers, SpecGraph, SpecCalls, SpecUsage; SpecRuns is one run of    *)
(* either tool); the variables of the other parts stay at their initial    *)
(* values.                                                                 *)
(***************************************************************************)
EXTENDS Integers, Sequences, FiniteSets, TLC

VARIABLES
    \* ---- sequential client (src/src/lsp.rs)
    request_id_counter, \* Client.request_id_counter
    cpc,                \* where the caller is: "idle" | "waiting" (in the recv loop)
    wire,               \* what io.send() has written, in order
    inq,                \* what io.recv() will deliver, in order
    calls,              \* number of request() calls started            (history)
    notifies,           \* number of notify() calls made                (history)
    pushed,             \* number of inbound messages produced so far   (history)
    replied,            \* wire positions the server has answered       (history)
    returned,           \* one record per finished request() call       (history)
    dropped,            \* the inbound messages the recv loop skipped   (history)
    \* ---- stdout reader (src/lsp-client/src/clients/stdio.rs, stdout_proxy)
    stream,              \* what the child has written to its stdout so far
    closed,              \* the child's stdout is at end of file after `stream`
    pos,                 \* number of stream tokens the BufReader has handed out
    rdState,             \* "header" | "body" | "done" | "panicked"
    next_content_length, \* Option<usize>: <<>> is None, <<n>> is Some(n)
    next_content_type,   \* Option<String>: <<>> is None, <<t>> is Some(t)
    bytes_left,          \* usize; a value k < 0 stands for the wrapped 2^64 + k
    content,             \* Vec<u8> being filled by read_until
    inbound,             \* what tx.send() has pushed, in order
    frames,              \* the complete frames the child wrote         (history)
    hdrStyle,            \* header layout of this child's frames, "unset" before the first
    junk,                \* the child wrote something else than a frame (history)
    hdrLines,            \* header lines read since the last frame      (history)
    readAtEof,           \* a read_until of the body returned 0 bytes   (history)
    stop_flag,           \* the shared Arc<AtomicBool> (stdio.rs:19)
    rdTested,            \* the Reader found the flag unset at stdio.rs:65 and is
                         \* in, or about to enter, read_line
    \* ---- reference graph builder (src/code-graph/src/main.rs, get_connections)
    gpc,          \* "start" | "awaitInit" | "awaitSymbols" | "awaitRefs" |
                  \* "done" | "failed" (Err returned) | "panicked"
    sent,         \* the requests and notifications sent, in order
    fileIdx,      \* index of the file of the current iteration of the outer loop
    symbols,      \* `symbols` of the current file (main.rs:244-247)
    symIdx,       \* index of the symbol of the current inner iteration
    nodes,        \* HashSet<String> nodes
    connections,  \* HashSet<Connection> connections
    outNodes,     \* the returned node list, as a set; {} until returned
    outEdges,     \* the returned connection list, as a set; {} until returned
    initCaps,     \* the capabilities of the initialize response  (history)
    docTrees,     \* file index -> the nested tree the server sent (history)
    reported,     \* <<R, D>>: server reported a reference in R to a symbol of D (history)
    gLast,        \* the last response: its kind, and Len(sent) then   (history)
    \* ---- usage scores (src/fn-usage/src/lib.rs, calc_fn_usage)
    upc,          \* "start" | "edges" | "score" | "done" | "panicked"
    fn_items,     \* the argument fn_items: a list of CallHierarchyItem
    fn_calls,     \* the argument fn_calls: a list of <<src item, dst item>>
    usage_nodes,  \* `nodes`: position i holds the item of NodeIndex i
    graph,        \* the edges added to `graph`, in order: <<src index, dst index>>
    usage,        \* the returned list: one [item, num, den] per node, <<>> until returned
    \* ---- call collection (src/fn-usage/src/lib.rs, get_project_functions,
    \*      get_function_calls)
    fpc,              \* "start" | "awaitSymbols" | "symbolsDone" | "awaitPrepare" |
                      \* "awaitCalls" | "done" | "panicked"
    eager,            \* the client sends a request when it is made, not when awaited
    fsent,            \* the requests sent, in order
    ffile,            \* index of the file whose symbol future is awaited
    fsymbols,         \* `symbols`: a list of <<uri, position>>
    fsym,             \* index of the symbol of the current iteration of lib.rs:84
    fn_call_items,    \* Vec<CallHierarchyItem> fn_call_items
    fn_calls_futures, \* the items whose incomingCalls request was made
    ffut,             \* index of the future awaited by the loop of lib.rs:129
    found_calls,      \* `fn_calls` of get_function_calls: <<caller item, queried item>>
    fLast,            \* the last response: its kind, and Len(fsent) then   (history)
    freported,        \* <<from, item>>: call the server reported           (history)
    pending,          \* the futures whose request is out and has no response yet
    inbox,            \* future -> the response that arrived for it        (kept as history)
    arrivedOrder,     \* the futures in the order their responses arrived  (history)
    \* ---- Writer and Error Relay (src/lsp-client/src/clients/stdio.rs, stdio_client)
    wpc,              \* Writer: "test" (line 25) | "recv" (line 26) | "stopped" | "panicked"
    outq,             \* the outbound channel client_tx -> client_rx
    tx_alive,         \* client_tx still exists
    made,             \* number of messages the client has put into outq  (history)
    stdin_written,    \* what the Writer wrote to the child's stdin, in order
    epc,              \* Error Relay: "test" (line 36) | "next" (line 37) | "stopped"
    errPending,       \* lines on the child's stderr not yet read
    errLines,         \* number of lines the child wrote to stderr        (history)
    errClosed         \* the child's stderr is at end of file after them

clientVars == <<request_id_counter, cpc, wire, inq, calls, notifies, pushed,
                replied, returned, dropped>>

readerVars == <<stream, closed, pos, rdState, next_content_length,
                next_content_type, bytes_left, content, inbound, frames, hdrStyle,
                junk, hdrLines, readAtEof, stop_flag, rdTested>>

graphVars == <<gpc, sent, fileIdx, symbols, symIdx, nodes, connections,
               outNodes, outEdges, initCaps, docTrees, reported, gLast>>

usageVars == <<upc, fn_items, fn_calls, usage_nodes, graph, usage>>

callsVars == <<fpc, eager, fsent, ffile, fsymbols, fsym, fn_call_items,
               fn_calls_futures, ffut, found_calls, fLast, freported,
               pending, inbox, arrivedOrder>>

workerVars == <<wpc, outq, tx_alive, made, stdin_written, epc, errPending,
                errLines, errClosed>>

vars == <<clientVars, readerVars, graphVars, usageVars, callsVars, workerVars>>

notClientVars == <<readerVars, graphVars, usageVars, callsVars, workerVars>>
notReaderVars == <<clientVars, graphVars, usageVars, callsVars, workerVars>>
notGraphVars  == <<clientVars, readerVars, usageVars, callsVars, workerVars>>
notUsageVars  == <<clientVars, readerVars, graphVars, callsVars, workerVars>>
notCallsVars  == <<clientVars, readerVars, graphVars, usageVars, workerVars>>
notWorkerVars == <<clientVars, graphVars, usageVars, callsVars>>

----------------------------------------------------------------------------
(* Bounds of the model.                                                    *)
MaxCalls   == 2   \* request() calls per session
MaxNotify  == 1   \* notify() calls per session
MaxInbound == 3   \* inbound messages the server produces per session

(* Option<i64>::None and a JSON id that is absent, null or not an integer: *)
(* `id.as_i64()` is None for all of them.  Real ids are >= 0.              *)
NoId == -1

----------------------------------------------------------------------------
(* Sequential client                                                       *)

(* An inbound message as serde_json sees it.  parse = FALSE is a string    *)
(* that is not JSON; body = "bad" is JSON that is no jsonrpc::Response.    *)
(* seq and forCall are history: the position in the inbound stream and the *)
(* request() call whose request the server answered with it (0: none).     *)
Msg(seq, parse, method, id, body, forCall) ==
    [seq |-> seq, parse |-> parse, method |-> method, id |-> id,
     body |-> body, forCall |-> forCall]

(* lsp.rs:43-46 with the method test dropped.                              *)
IsOurResponseNoMethodTest(m, counter) == m.id = counter

(* lsp.rs:43-46 with the id test dropped: any response ends the loop.      *)
IsOurResponseAnyId(m, counter) == ~m.method

(* lsp.rs:43-46: no `method` field and `id` equal to the counter.          *)
IsOurResponse(m, counter) == ~m.method /\ m.id # NoId /\ m.id = counter

(* What request() hands back to its caller.                                *)
Ret(outcome, m, sentId) ==
    [call |-> calls, outcome |-> outcome, seq |-> m.seq, method |-> m.method,
     id |-> m.id, forCall |-> m.forCall, sentId |-> sentId]

NoMsg == Msg(0, FALSE, FALSE, NoId, "none", 0)

ClientInit ==
    /\ request_id_counter = 0
    /\ cpc = "idle"
    /\ wire = <<>>
    /\ inq = <<>>
    /\ calls = 0
    /\ notifies = 0
    /\ pushed = 0
    /\ replied = {}
    /\ returned = <<>>
    /\ dropped = {}

(* request(), lsp.rs:26-37, io.send() succeeded: the request is on the     *)
(* wire with id = request_id_counter and the caller enters the recv loop.  *)
RequestSend ==
    /\ UNCHANGED notClientVars
    /\ cpc = "idle"
    /\ calls < MaxCalls
    /\ calls' = calls + 1
    /\ wire' = Append(wire, [kind |-> "request", id |-> request_id_counter,
                             call |-> calls + 1])
    /\ cpc' = "waiting"
    /\ UNCHANGED <<request_id_counter, inq, notifies, pushed, replied,
                   returned, dropped>>

(* request(), lsp.rs:37: io.send() failed, `?` returns the error.          *)
RequestSendErr ==
    /\ UNCHANGED notClientVars
    /\ cpc = "idle"
    /\ calls < MaxCalls
    /\ calls' = calls + 1
    /\ returned' = Append(returned,
                     [Ret("err", NoMsg, request_id_counter) EXCEPT !.call = calls + 1])
    /\ UNCHANGED <<request_id_counter, cpc, wire, inq, notifies, pushed,
                   replied, dropped>>

(* One iteration of the loop of lsp.rs:39-50, then lines 52-54 when the    *)
(* loop breaks.                                                            *)
RecvMsg ==
    /\ UNCHANGED notClientVars
    /\ cpc = "waiting"
    /\ inq # <<>>
    /\ LET m == Head(inq) IN
       /\ inq' = Tail(inq)
       /\ CASE ~m.parse ->
                 \* line 40: serde_json::from_str fails, `?` returns
                 /\ cpc' = "idle"
                 /\ returned' = Append(returned, Ret("err", NoMsg, request_id_counter))
                 /\ UNCHANGED <<request_id_counter, dropped>>
            [] m.parse /\ IsOurResponse(m, request_id_counter) /\ m.body = "bad" ->
                 \* line 48: serde_json::from_value fails, `?` returns
                 /\ cpc' = "idle"
                 /\ returned' = Append(returned, Ret("err", NoMsg, request_id_counter))
                 /\ UNCHANGED <<request_id_counter, dropped>>
            [] m.parse /\ IsOurResponse(m, request_id_counter) /\ m.body # "bad" ->
                 \* lines 48-54: break, count, convert the result
                 /\ cpc' = "idle"
                 /\ request_id_counter' = request_id_counter + 1
                 /\ returned' = Append(returned,
                        Ret(IF m.body = "error" THEN "rpcerr" ELSE "ok",
                            m, request_id_counter))
                 /\ UNCHANGED dropped
            [] OTHER ->
                 \* not our response: the loop goes round
                 /\ dropped' = dropped \cup
                        {[seq |-> m.seq, call |-> calls, method |-> m.method,
                          id |-> m.id, sentId |-> request_id_counter]}
                 /\ UNCHANGED <<request_id_counter, cpc, returned>>
    /\ UNCHANGED <<wire, calls, notifies, pushed, replied>>

(* lsp.rs:40: io.recv() itself fails, `?` returns the error.               *)
RecvErr ==
    /\ UNCHANGED notClientVars
    /\ cpc = "waiting"
    /\ cpc' = "idle"
    /\ returned' = Append(returned, Ret("err", NoMsg, request_id_counter))
    /\ UNCHANGED <<request_id_counter, wire, inq, calls, notifies, pushed,
                   replied, dropped>>

(* notify(), lsp.rs:57-69.                                                 *)
Notify ==
    /\ UNCHANGED notClientVars
    /\ cpc = "idle"
    /\ notifies < MaxNotify
    /\ notifies' = notifies + 1
    /\ wire' = Append(wire, [kind |-> "notification", id |-> NoId, call |-> 0])
    /\ UNCHANGED <<request_id_counter, cpc, inq, calls, pushed, replied,
                   returned, dropped>>

(* The server answers the request at wire position k, once.                *)
ServerReply ==
    /\ UNCHANGED notClientVars
    /\ pushed < MaxInbound
    /\ \E k \in DOMAIN wire \ replied, body \in {"result", "error", "bad"} :
         /\ wire[k].kind = "request"
         /\ replied' = replied \cup {k}
         /\ inq' = Append(inq, Msg(pushed + 1, TRUE, FALSE, wire[k].id, body,
                                   wire[k].call))
    /\ pushed' = pushed + 1
    /\ UNCHANGED <<request_id_counter, cpc, wire, calls, notifies, returned,
                   dropped>>

(* The server sends a notification (method, no id), a request of its own   *)
(* (method and id), a response nobody asked for (id null or an id), or     *)
(* bytes that are not JSON.                                                *)
ServerOther ==
    /\ UNCHANGED notClientVars
    /\ pushed < MaxInbound
    /\ \E m \in {Msg(pushed + 1, TRUE, TRUE, NoId, "result", 0),
                 Msg(pushed + 1, FALSE, FALSE, NoId, "none", 0)}
              \cup {Msg(pushed + 1, TRUE, TRUE, i, "result", 0) : i \in {0}}
              \cup {Msg(pushed + 1, TRUE, FALSE, i, "result", 0) : i \in {NoId, 1}} :
         inq' = Append(inq, m)
    /\ pushed' = pushed + 1
    /\ UNCHANGED <<request_id_counter, cpc, wire, calls, notifies, replied,
                   returned, dropped>>

ClientNext ==
    \/ RequestSend
    \/ RequestSendErr
    \/ RecvMsg
    \/ RecvErr
    \/ Notify
    \/ ServerReply
    \/ ServerOther

(* The messages request() handed to a caller (Ok or a JSON-RPC error).     *)
Delivered == {i \in DOMAIN returned : returned[i].outcome \in {"ok", "rpcerr"}}

(* Whether a skipped message d would have passed the test of the request   *)
(* that skipped it.                                                        *)
WouldMatch(d) == ~d.method /\ d.id # NoId /\ d.id = d.sentId

(* C1: request() returns only the first inbound message that has no        *)
(* `method` field and whose `id` equals the id this request sent; every    *)
(* message it consumed before that one was skipped, none of the skipped    *)
(* ones would have matched, and no skipped message is ever returned by     *)
(* this or a later request.                                                *)
C1_ReturnsFirstMatchOnly ==
    \A i \in Delivered :
        LET r == returned[i] IN
        /\ ~r.method
        /\ r.id = r.sentId
        /\ \A d \in dropped :
             /\ d.seq # r.seq
             /\ d.call = r.call => d.seq < r.seq /\ ~WouldMatch(d)
        /\ \A j \in Delivered : j # i => returned[j].seq # r.seq

(* C1 witness: a request skipped a server request that carried its own id, *)
(* then returned its response, and a later request returned as well.       *)
C1_Witness ==
    \E i, j \in Delivered :
        /\ i < j
        /\ \E d \in dropped : d.call = returned[i].call /\ d.method
                                /\ d.id = returned[i].sentId

(* The requests on the wire, in the order written.                         *)
WireRequests == SelectSeq(wire, LAMBDA w : w.kind = "request")

(* C2: the first request written carries id 0, every later request an id   *)
(* strictly greater than all earlier ones, and notifications carry no id.  *)
C2_IdsStrictlyIncreasing ==
    /\ WireRequests # <<>> => WireRequests[1].id = 0
    /\ \A i, j \in DOMAIN WireRequests :
          i < j => WireRequests[i].id < WireRequests[j].id
    /\ \A k \in DOMAIN wire : wire[k].kind = "notification" => wire[k].id = NoId

(* C3: a response the server produced in reply to one request() call is    *)
(* never the result of a different request() call.                         *)
C3_NoCrossDelivery ==
    \A i \in Delivered :
        returned[i].forCall # 0 => returned[i].forCall = returned[i].call

(* The inbound message m answers the request sent with id `sentId`.        *)
Answers(m, sentId) == m.parse /\ ~m.method /\ m.id # NoId /\ m.id = sentId

(* C18: a waiting request() returns only on a message that answers it or   *)
(* on a receive or parse failure, and a well-formed inbound message that   *)
(* does not answer it (a notification, a server request, a response with   *)
(* another id or with a null id) leaves the caller waiting with nothing    *)
(* returned; there is no other way out of the wait.                        *)
C18_BlocksUntilMatch ==
    [][ /\ (cpc = "waiting" /\ cpc' = "idle") =>
              /\ Len(returned') = Len(returned) + 1
              /\ LET r == returned'[Len(returned')] IN
                 \/ /\ r.outcome \in {"ok", "rpcerr"}
                    /\ inq # <<>> /\ inq' = Tail(inq)
                    /\ Answers(Head(inq), request_id_counter)
                    /\ r.seq = Head(inq).seq
                 \/ /\ r.outcome = "err"
                    /\ \/ inq' = inq
                       \/ /\ inq # <<>> /\ inq' = Tail(inq)
                          /\ \/ ~Head(inq).parse
                             \/ Answers(Head(inq), request_id_counter)
        /\ (cpc = "waiting" /\ inq # <<>> /\ inq' = Tail(inq)
               /\ Head(inq).parse /\ ~Answers(Head(inq), request_id_counter)) =>
              (cpc' = "waiting" /\ returned' = returned)
        /\ (cpc = "waiting" /\ cpc' = "waiting") => returned' = returned
      ]_vars

(* C18 witness: the caller is still waiting after the queue delivered a    *)
(* notification and a response with a null id, and nothing is left in the  *)
(* queue.                                                                  *)
C18_Witness ==
    /\ cpc = "waiting"
    /\ inq = <<>>
    /\ returned = <<>>
    /\ \E d \in dropped : d.call = calls /\ d.method /\ d.id = NoId
    /\ \E d \in dropped : d.call = calls /\ ~d.method /\ d.id = NoId

----------------------------------------------------------------------------
(* Stdout reader: stdout_proxy of lsp-client/src/clients/stdio.rs          *)

MaxFrames == 2   \* frames the child writes
MaxBody   == 3   \* bytes of one body

(* The child's stdout as a sequence of tokens.  A header line is one token *)
(* (it holds no `}` and ends with its only newline, so neither read_line   *)
(* nor read_until ever stops inside one); a body byte is one token.        *)
(*   [t |-> "CL", n |-> k]   "Content-Length: k\r\n"                       *)
(*   [t |-> "CT", n |-> 0]   "Content-Type: utf8\r\n"                      *)
(*   [t |-> "blank", n |-> 0] "\r\n"                                       *)
(*   [t |-> "}", n |-> 0]    the byte `}`                                  *)
(*   [t |-> "x", n |-> 0]    any other body byte (`{`, `"`, a letter, ...) *)
Tok(t, n) == [t |-> t, n |-> n]

IsLine(tok) == tok.t \in {"CL", "CT", "blank"}

(* Decimal digits of a length.                                             *)
Digits(n) == IF n < 10 THEN 1 ELSE 2

(* Bytes a token takes on the stream.                                      *)
ByteLen(tok) ==
    CASE tok.t = "CL"    -> 16 + Digits(tok.n) + 2
      [] tok.t = "CT"    -> 20
      [] tok.t = "blank" -> 2
      [] OTHER           -> 1

RECURSIVE Bytes(_)
Bytes(toks) == IF toks = <<>> THEN 0 ELSE ByteLen(Head(toks)) + Bytes(Tail(toks))

(* Sequences over S of length lo..hi.                                      *)
SeqsOf(S, lo, hi) == UNION {[1..n -> S] : n \in lo..hi}

(* Bodies a peer may send: JSON text, which never starts with `}` and ends *)
(* in `}` or not (an array, a newline or space after the object).          *)
Bodies == {b \in SeqsOf({Tok("x", 0), Tok("}", 0)}, 1, MaxBody) : b[1].t = "x"}

(* Bodies serde_json::to_string makes of a Request or Notification struct  *)
(* (lsp.rs:26-31, 58-62): an object, `{` first and `}` last, with any      *)
(* bytes, `}` included, inside its strings.                                *)
EncoderBodies == {b \in Bodies : Len(b) >= 2 /\ b[1].t = "x" /\ b[Len(b)].t = "}"}

(* lsp.rs:33-37 and 64-68: "Content-Length: {}\r\n\r\n{}" of the byte      *)
(* length and the body.                                                    *)
Encode(body) == <<Tok("CL", Bytes(body)), Tok("blank", 0)>> \o body

(* A frame with its headers in one of the orders the protocol allows.      *)
FrameTokens(body, ct) ==
    CASE ct = "none"   -> Encode(body)
      [] ct = "after"  -> <<Tok("CL", Bytes(body)), Tok("CT", 0), Tok("blank", 0)>> \o body
      [] ct = "before" -> <<Tok("CT", 0), Tok("CL", Bytes(body)), Tok("blank", 0)>> \o body

ReaderInit ==
    /\ stream = <<>>
    /\ closed = FALSE
    /\ pos = 0
    /\ rdState = "header"
    /\ next_content_length = <<>>
    /\ next_content_type = <<>>
    /\ bytes_left = 0
    /\ content = <<>>
    /\ inbound = <<>>
    /\ frames = <<>>
    /\ hdrStyle = "unset"
    /\ junk = FALSE
    /\ hdrLines = 0
    /\ readAtEof = FALSE
    /\ stop_flag = FALSE
    /\ rdTested = FALSE

(* The child writes one complete frame.  A child lays out the header block *)
(* of all its frames the same way.                                         *)
ServerWriteFrame ==
    /\ UNCHANGED notReaderVars
    /\ UNCHANGED <<stop_flag, rdTested>>
    /\ ~closed
    /\ Len(frames) < MaxFrames
    /\ \E body \in Bodies, ct \in {"none", "after", "before"} :
         /\ hdrStyle \in {"unset", ct}
         /\ hdrStyle' = ct
         /\ stream' = stream \o FrameTokens(body, ct)
         /\ frames' = Append(frames,
                [body |-> body, ct |-> ct,
                 bodyStart |-> Len(stream) + Len(FrameTokens(body, ct)) - Len(body),
                 end |-> Len(stream) + Len(FrameTokens(body, ct))])
    /\ UNCHANGED <<closed, pos, rdState, next_content_length, next_content_type,
                   bytes_left, content, inbound, junk, hdrLines, readAtEof>>

(* The child writes the header block of a frame and only the first k bytes *)
(* of its body, and its stdout ends there (the child died).                *)
ServerWriteTruncated ==
    /\ UNCHANGED notReaderVars
    /\ UNCHANGED <<stop_flag, rdTested>>
    /\ ~closed
    /\ Len(frames) < MaxFrames
    /\ \E body \in Bodies, k \in 0..(MaxBody - 1) :
         /\ k < Len(body)
         /\ stream' = stream \o <<Tok("CL", Bytes(body)), Tok("blank", 0)>>
                             \o SubSeq(body, 1, k)
    /\ closed' = TRUE
    /\ junk' = TRUE
    /\ UNCHANGED <<pos, rdState, next_content_length, next_content_type,
                   bytes_left, content, inbound, frames, hdrStyle, hdrLines, readAtEof>>

(* The child writes an empty line where a header block would start.        *)
ServerWriteBlank ==
    /\ UNCHANGED notReaderVars
    /\ UNCHANGED <<stop_flag, rdTested>>
    /\ ~closed
    /\ ~junk
    /\ stream' = Append(stream, Tok("blank", 0))
    /\ junk' = TRUE
    /\ UNCHANGED <<closed, pos, rdState, next_content_length, next_content_type,
                   bytes_left, content, inbound, frames, hdrStyle, hdrLines, readAtEof>>

(* The child closes its stdout (exits).                                    *)
ServerClose ==
    /\ UNCHANGED notReaderVars
    /\ UNCHANGED <<stop_flag, rdTested>>
    /\ ~closed
    /\ closed' = TRUE
    /\ UNCHANGED <<stream, pos, rdState, next_content_length, next_content_type,
                   bytes_left, content, inbound, frames, hdrStyle, junk, hdrLines,
                   readAtEof>>

Rest == SubSeq(stream, pos + 1, Len(stream))

(* Index in s of the first token satisfying P, 0 when there is none.       *)
FirstIdx(s, P(_)) ==
    IF \E i \in DOMAIN s : P(s[i])
    THEN CHOOSE i \in DOMAIN s : P(s[i]) /\ \A j \in 1..(i - 1) : ~P(s[j])
    ELSE 0

(* BufRead::read_line (stdio.rs:67): the tokens up to and including the    *)
(* first newline, or all that is left when the stream ends first.          *)
LineRead ==
    LET i == FirstIdx(Rest, IsLine) IN
    IF i = 0 THEN Rest ELSE SubSeq(Rest, 1, i)

(* BufRead::read_until(b'}') (stdio.rs:87): the tokens up to and including *)
(* the first `}`, or all that is left when the stream ends first.          *)
UntilBrace ==
    LET i == FirstIdx(Rest, LAMBDA tok : tok.t = "}") IN
    IF i = 0 THEN Rest ELSE SubSeq(Rest, 1, i)

(* line.split_ascii_whitespace() (stdio.rs:71) of what read_line gave.     *)
Words(line) ==
    CASE line = <<>>                          -> <<>>
      [] Len(line) = 1 /\ line[1].t = "blank" -> <<>>
      [] Len(line) = 1 /\ line[1].t = "CL"    -> <<"Content-Length:", line[1].n>>
      [] Len(line) = 1 /\ line[1].t = "CT"    -> <<"Content-Type:", "utf8">>
      [] OTHER                                -> <<"unexpected">>

(* The match of stdio.rs:72-103 with the empty-line arm written with       *)
(* wildcards and placed first: every empty line ends the loop.             *)
MatchArmBlankEndsLoop(words, len, type) ==
    CASE words = <<>> -> "shutdown"
      [] Len(words) = 2 /\ words[1] = "Content-Length:" /\ len = <<>> /\ type = <<>>
            -> "length"
      [] Len(words) = 2 /\ words[1] = "Content-Type:" /\ len # <<>> /\ type = <<>>
            -> "type"
      [] OTHER
            -> "unexpected"

(* The arm of the match of stdio.rs:72-103 taken for the words of a line   *)
(* and the two Options.                                                    *)
MatchArm(words, len, type) ==
    CASE Len(words) = 2 /\ words[1] = "Content-Length:" /\ len = <<>> /\ type = <<>>
            -> "length"
      [] Len(words) = 2 /\ words[1] = "Content-Type:" /\ len # <<>> /\ type = <<>>
            -> "type"
      [] words = <<>> /\ len # <<>>
            -> "body"
      [] words = <<>> /\ len = <<>> /\ type = <<>>
            -> "shutdown"
      [] OTHER
            -> "unexpected"

(* stdio.rs:86 as an `if`: one read_until up to the first `}` and no loop.  *)
ReadsOnce(left) == FALSE

(* stdio.rs:86, `while bytes_left > 0` on a usize: a wrapped value is a    *)
(* huge positive number, so the loop goes on unless the count is exactly 0.*)
LoopGoesOn(left) == left # 0

(* stdio.rs:65: the Reader loads the stop flag at the top of its loop and  *)
(* leaves the loop when it is set.                                         *)
ReaderTest ==
    /\ UNCHANGED notReaderVars
    /\ rdState = "header"
    /\ ~rdTested
    /\ IF stop_flag
       THEN rdState' = "stopped" /\ UNCHANGED rdTested
       ELSE rdTested' = TRUE /\ UNCHANGED rdState
    /\ UNCHANGED <<stream, closed, pos, next_content_length, next_content_type,
                   bytes_left, content, inbound, frames, hdrStyle, junk, hdrLines,
                   readAtEof, stop_flag>>

(* One iteration of the outer loop of stdio.rs:65-104 after the test of    *)
(* the flag, up to the point where the body is read: read_line, split,     *)
(* match.  read_line returns once a newline is there or the stream has     *)
(* ended (then with an empty line).  The stream here never fails with an   *)
(* I/O error.                                                              *)
ReadLine ==
    /\ UNCHANGED notReaderVars
    /\ rdState = "header"
    /\ rdTested
    /\ rdTested' = FALSE
    /\ UNCHANGED stop_flag
    /\ FirstIdx(Rest, IsLine) # 0 \/ closed
    /\ LET line  == LineRead
           words == Words(line)
           arm   == MatchArm(words, next_content_length, next_content_type)
       IN
       /\ pos' = pos + Len(line)
       /\ CASE arm = "length" ->
                 /\ next_content_length' = <<words[2]>>
                 /\ hdrLines' = hdrLines + 1
                 /\ UNCHANGED <<rdState, next_content_type, bytes_left, content,
                                inbound>>
            [] arm = "type" ->
                 /\ next_content_type' = <<words[2]>>
                 /\ hdrLines' = hdrLines + 1
                 /\ UNCHANGED <<rdState, next_content_length, bytes_left, content,
                                inbound>>
            [] arm = "body" /\ next_content_length[1] > 0 ->
                 /\ rdState' = "body"
                 /\ bytes_left' = next_content_length[1]
                 /\ content' = <<>>
                 /\ UNCHANGED <<next_content_length, next_content_type, inbound,
                                hdrLines>>
            [] arm = "body" /\ next_content_length[1] = 0 ->
                 \* a declared length of 0: the loop body never runs
                 /\ inbound' = Append(inbound, <<>>)
                 /\ next_content_length' = <<>>
                 /\ next_content_type' = <<>>
                 /\ hdrLines' = 0
                 /\ UNCHANGED <<rdState, bytes_left, content>>
            [] arm = "shutdown" ->
                 /\ rdState' = "done"
                 /\ UNCHANGED <<next_content_length, next_content_type, bytes_left,
                                content, inbound, hdrLines>>
            [] OTHER ->
                 /\ rdState' = "panicked"
                 /\ UNCHANGED <<next_content_length, next_content_type, bytes_left,
                                content, inbound, hdrLines>>
    /\ UNCHANGED <<stream, closed, frames, hdrStyle, junk, readAtEof>>

(* One iteration of the inner loop of stdio.rs:86-89, and lines 91-95 when *)
(* the loop ends.  read_until returns once a `}` is there or the stream    *)
(* has ended (then with what is left, possibly 0 bytes).  `bytes_left -=   *)
(* read_bytes` on a usize with read_bytes > bytes_left panics in a build   *)
(* with overflow checks and wraps in one without.                          *)
ReadUntil ==
    /\ UNCHANGED notReaderVars
    /\ UNCHANGED <<stop_flag, rdTested>>
    /\ rdState = "body"
    /\ FirstIdx(Rest, LAMBDA tok : tok.t = "}") # 0 \/ closed
    /\ LET read == UntilBrace
           n    == Bytes(read)
           left == bytes_left - n
           underflow == bytes_left >= 0 /\ n > bytes_left
       IN
       \/ /\ underflow
          /\ rdState' = "panicked"
          /\ pos' = pos + Len(read)
          /\ content' = content \o read
          /\ UNCHANGED <<bytes_left, inbound, next_content_length,
                         next_content_type, hdrLines, readAtEof>>
       \/ /\ underflow
          /\ bytes_left' = left
          /\ pos' = pos + Len(read)
          /\ content' = content \o read
          /\ UNCHANGED <<rdState, inbound, next_content_length,
                         next_content_type, hdrLines, readAtEof>>
       \/ /\ ~underflow
          /\ pos' = pos + Len(read)
          /\ readAtEof' = (readAtEof \/ n = 0)
          /\ IF LoopGoesOn(left)
             THEN /\ bytes_left' = left
                  /\ content' = content \o read
                  /\ UNCHANGED <<rdState, inbound, next_content_length,
                                 next_content_type, hdrLines>>
             ELSE /\ inbound' = Append(inbound, content \o read)
                  /\ rdState' = "header"
                  /\ bytes_left' = 0
                  /\ content' = <<>>
                  /\ next_content_length' = <<>>
                  /\ next_content_type' = <<>>
                  /\ hdrLines' = 0
    /\ UNCHANGED <<stream, closed, frames, hdrStyle, junk>>

----------------------------------------------------------------------------
(* Properties of the stdout reader                                         *)

IsPrefix(a, b) == Len(a) <= Len(b) /\ SubSeq(b, 1, Len(a)) = a

(* C4: over a stream of well-formed frames the Reader pushes the frames'   *)
(* bodies, each once and in order, reads no byte beyond the end of the     *)
(* frame it is in, and starts the next header at the byte after the body.  *)
C4_ExactlyContentLengthBytes ==
    ~junk =>
        /\ Len(inbound) <= Len(frames)
        /\ \A i \in DOMAIN inbound \cap DOMAIN frames : inbound[i] = frames[i].body
        /\ bytes_left >= 0
        /\ (rdState \in {"body", "panicked"} /\ content # <<>>) =>
              /\ Len(inbound) < Len(frames)
              /\ pos <= frames[Len(inbound) + 1].end
              /\ IsPrefix(content, frames[Len(inbound) + 1].body)
        /\ (rdState = "header" /\ hdrLines = 0 /\ inbound # <<>>) =>
              pos = frames[Len(inbound)].end

(* Every frame on the stream so far is Encode(body) of an encoder body.    *)
AllEncoded ==
    /\ ~junk
    /\ hdrStyle \in {"unset", "none"}
    /\ \A i \in DOMAIN frames : frames[i].body \in EncoderBodies

C6_TruncatedBodyIsFatal ==
    (readAtEof /\ bytes_left > 0) => rdState = "panicked"

(* C7: reading an empty line or end of stream while awaiting a header with *)
(* no Content-Length accumulated ends the decode loop without error; the   *)
(* loop ends this way only when no header line of the current frame has    *)
(* been read; after it the Reader does nothing and pushes nothing.         *)
C7_OrderlyShutdown ==
    [][ /\ (ReadLine /\ Words(LineRead) = <<>> /\ next_content_length = <<>>) =>
              (rdState' = "done" /\ inbound' = inbound)
        /\ (rdState # "done" /\ rdState' = "done") =>
              /\ hdrLines = 0
              /\ next_content_length = <<>> /\ next_content_type = <<>>
              /\ Words(LineRead) = <<>>
              /\ inbound' = inbound
        /\ rdState = "done" => (rdState' = "done" /\ inbound' = inbound /\ pos' = pos)
      ]_vars

(* C7 witness: the loop ended on an empty line that followed a pushed      *)
(* frame.                                                                  *)
C7_Witness ==
    /\ rdState = "done"
    /\ inbound # <<>>
    /\ junk
    /\ pos = Len(stream)
    /\ stream[pos].t = "blank"

(* Every frame written so far is whole and well formed: one Content-Length *)
(* line and at most one Content-Type line, in either order, a blank line,  *)
(* and a body of the declared length as the encoder makes it.              *)
AllWellFormed ==
    /\ ~junk
    /\ \A i \in DOMAIN frames : frames[i].body \in EncoderBodies

(* C22: the Reader accepts every header block of one Content-Length line   *)
(* and at most one Content-Type line in either order: it does not fail, it *)
(* pushes the bodies in order, having read the whole stream it has pushed  *)
(* every body, and between frames no length and no type is remembered.     *)
C22_HeaderBlockEitherOrder ==
    AllWellFormed =>
        /\ rdState # "panicked"
        /\ Len(inbound) <= Len(frames)
        /\ \A i \in DOMAIN inbound : inbound[i] = frames[i].body
        /\ (rdState = "header" /\ hdrLines = 0) =>
              (next_content_length = <<>> /\ next_content_type = <<>>)
        /\ (rdState \in {"header", "done"} /\ pos = Len(stream)) =>
              Len(inbound) = Len(frames)

----------------------------------------------------------------------------
(* Reference graph builder: get_connections of code-graph/src/main.rs     *)

MaxRefs == 2   \* locations in one `references` response

(* URIs are strings, here sequences of characters.  Root is root_uri, the  *)
(* canonical base path without a trailing slash (main.rs:43, 347-348).     *)
Root    == <<"/", "p">>
DocA    == <<"/", "p", "/", "a">>
DocB    == <<"/", "p", "/", "b">>
Sibling == <<"/", "p", "2", "/", "c">>   \* in directory /p2, next to /p
Outside == <<"/", "q", "/", "d">>

(* `files`: what the walk of main.rs:181-204 found under the base path.    *)
Files == <<DocA, DocB>>

(* Documents a server may name in a Location.                              *)
RefDocs == {DocA, DocB, Sibling, Outside}

(* A DocumentSymbol: selection_range.start, kind, children.                *)
Sym(p, kind, children) == [pos |-> p, kind |-> kind, children |-> children]

(* The nested documentSymbol results the server may send for a file.       *)
SymbolTrees ==
    { <<>>,
      <<Sym(1, "FUNCTION", <<>>)>>,
      <<Sym(1, "CLASS", <<Sym(2, "METHOD", <<>>)>>)>>,
      <<Sym(1, "FUNCTION", <<>>), Sym(2, "VARIABLE", <<>>)>> }

(* Responses to documentSymbol: a failure of the transport (the outer Err  *)
(* of request()), a JSON-RPC error, null, a flat list, or a nested tree.   *)
SymbolResponses ==
    [k : {"transport", "error", "null", "flat"}, tree : {<<>>}]
        \cup [k : {"nested"}, tree : SymbolTrees]

(* Responses to references: a failure of the transport, a JSON-RPC error,  *)
(* null, or locations; only the documents of the locations matter to the   *)
(* builder.                                                                *)
RefResponses ==
    [k : {"transport", "error", "null"}, docs : {{}}]
        \cup [k : {"refs"}, docs : {ds \in SUBSET RefDocs : Cardinality(ds) <= MaxRefs}]

(* Responses to initialize: a failure of the transport, a JSON-RPC error   *)
(* or ServerCapabilities.                                                  *)
InitResponses ==
    [k : {"transport", "error"}, docSym : {FALSE}, refs : {FALSE}]
        \cup [k : {"caps"}, docSym : BOOLEAN, refs : BOOLEAN]

Sent(method, uri, p) == [method |-> method, uri |-> uri, pos |-> p]

(* No response was received yet.                                           *)
NoResponse == [k |-> "none", at |-> 0]

(* str::strip_prefix (main.rs:306, 319): <<>> is None, <<rest>> is Some.   *)
StripPrefix(u, prefix) ==
    IF Len(u) >= Len(prefix) /\ SubSeq(u, 1, Len(prefix)) = prefix
    THEN <<SubSeq(u, Len(prefix) + 1, Len(u))>>
    ELSE <<>>

(* main.rs:303-315 with the test of the source left out: a connection is  *)
(* kept when its destination has the prefix, its source as it is when the  *)
(* prefix is missing.                                                      *)
FinalConnectionsDstOnly(cs) ==
    {[src |-> IF StripPrefix(c.src, Root) # <<>>
              THEN StripPrefix(c.src, Root)[1] ELSE c.src,
      dst |-> StripPrefix(c.dst, Root)[1]] :
        c \in {x \in cs : StripPrefix(x.dst, Root) # <<>>}}

(* main.rs:303-315.                                                        *)
FinalConnections(cs) ==
    {[src |-> StripPrefix(c.src, Root)[1], dst |-> StripPrefix(c.dst, Root)[1]] :
        c \in {x \in cs : StripPrefix(x.src, Root) # <<>> /\ StripPrefix(x.dst, Root) # <<>>}}

(* main.rs:317-320.                                                        *)
FinalNodes(ns) ==
    {StripPrefix(n, Root)[1] : n \in {x \in ns : StripPrefix(x, Root) # <<>>}}

(* `??` with the second `?` left out: only the outer Err is returned.      *)
PropagatesOuterOnly(k) == k = "transport"

(* The `??` after request() (main.rs:166, 239, 282): the outer Err of the  *)
(* transport and the Err made of a JSON-RPC error object (jsonrpc.rs:42-53)*)
(* both return from get_connections.                                       *)
Propagates(k) == k \in {"transport", "error"}

(* main.rs:168-174 with the second test left out.                          *)
GateDocumentSymbolOnly(caps) == caps.docSym

(* main.rs:168-174: both providers must be there.                          *)
CapabilityGate(caps) == caps.docSym /\ caps.refs

GraphInit ==
    /\ gpc = "start"
    /\ sent = <<>>
    /\ fileIdx = 0
    /\ symbols = <<>>
    /\ symIdx = 0
    /\ nodes = {}
    /\ connections = {}
    /\ outNodes = {}
    /\ outEdges = {}
    /\ initCaps = [k |-> "none", docSym |-> FALSE, refs |-> FALSE]
    /\ docTrees = <<>>
    /\ reported = {}
    /\ gLast = NoResponse

(* What the outer loop sends for one file, reversed: the request before    *)
(* the notification that opens the document.                               *)
SymbolsThenOpen(uri) ==
    <<Sent("documentSymbol", uri, 0), Sent("didOpen", uri, 0)>>

(* main.rs:221-239: what the outer loop sends for one file, the didOpen    *)
(* notification and then the documentSymbol request.                       *)
FileMessages(uri) ==
    <<Sent("didOpen", uri, 0), Sent("documentSymbol", uri, 0)>>

(* The outer loop of main.rs:209 arrives at file i with what was sent and  *)
(* collected so far: didOpen and the documentSymbol request go out         *)
(* (lines 211-239), or, past the last file, the result is finalized and    *)
(* returned (lines 301-322).                                               *)
ToFile(i, sentNow, nodesNow, connsNow) ==
    /\ fileIdx' = i
    /\ nodes' = nodesNow
    /\ connections' = connsNow
    /\ IF i > Len(Files)
       THEN /\ gpc' = "done"
            /\ sent' = sentNow
            /\ outNodes' = FinalNodes(nodesNow)
            /\ outEdges' = FinalConnections(connsNow)
       ELSE /\ gpc' = "awaitSymbols"
            /\ sent' = sentNow \o FileMessages(Files[i])
            /\ UNCHANGED <<outNodes, outEdges>>

(* The inner loop of main.rs:249 arrives at symbol j of syms: the file     *)
(* becomes a node and the references request goes out (lines 250-282), or, *)
(* past the last symbol, the outer loop goes on.                           *)
ToSymbol(j, syms, nodesNow, connsNow) ==
    /\ symIdx' = j
    /\ symbols' = syms
    /\ IF j > Len(syms)
       THEN ToFile(fileIdx + 1, sent, nodesNow, connsNow)
       ELSE /\ gpc' = "awaitRefs"
            /\ nodes' = nodesNow \cup {Files[fileIdx]}
            /\ connections' = connsNow
            /\ sent' = Append(sent, Sent("references", Files[fileIdx], syms[j].pos))
            /\ UNCHANGED <<fileIdx, outNodes, outEdges>>

(* main.rs:166, request sent.                                              *)
GSendInitialize ==
    /\ UNCHANGED notGraphVars
    /\ gpc = "start"
    /\ gpc' = "awaitInit"
    /\ sent' = <<Sent("initialize", Root, 0)>>
    /\ UNCHANGED <<fileIdx, symbols, symIdx, nodes, connections, outNodes,
                   outEdges, initCaps, docTrees, reported, gLast>>

(* main.rs:166-178 and on to the first file: the initialize response, the  *)
(* capability gate, the initialized notification.                          *)
GInitializeResponse ==
    /\ UNCHANGED notGraphVars
    /\ gpc = "awaitInit"
    /\ \E r \in InitResponses :
         /\ gLast' = [k |-> r.k, at |-> Len(sent)]
         /\ IF Propagates(r.k)
            THEN /\ gpc' = "failed"
                 /\ UNCHANGED <<sent, fileIdx, nodes, connections, outNodes,
                                outEdges, initCaps>>
            ELSE /\ initCaps' = r
                 /\ IF CapabilityGate(r)
                    THEN ToFile(1, Append(sent, Sent("initialized", Root, 0)),
                                nodes, connections)
                    ELSE /\ gpc' = "failed"
                         /\ UNCHANGED <<sent, fileIdx, nodes, connections,
                                        outNodes, outEdges>>
    /\ UNCHANGED <<symbols, symIdx, docTrees, reported>>

(* main.rs:228-249: the documentSymbol response of the current file.       *)
GSymbolsResponse ==
    /\ UNCHANGED notGraphVars
    /\ gpc = "awaitSymbols"
    /\ \E r \in SymbolResponses :
         /\ gLast' = [k |-> r.k, at |-> Len(sent)]
         /\ CASE Propagates(r.k) ->
                   /\ gpc' = "failed"
                   /\ UNCHANGED <<sent, fileIdx, symbols, symIdx, nodes,
                                  connections, outNodes, outEdges, docTrees>>
              [] r.k = "flat" ->
                   \* line 245: todo!()
                   /\ gpc' = "panicked"
                   /\ UNCHANGED <<sent, fileIdx, symbols, symIdx, nodes,
                                  connections, outNodes, outEdges, docTrees>>
              [] r.k = "nested" ->
                   /\ docTrees' = [i \in DOMAIN docTrees \cup {fileIdx} |->
                                     IF i = fileIdx THEN r.tree ELSE docTrees[i]]
                   /\ ToSymbol(1, r.tree, nodes, connections)
              [] OTHER ->
                   \* no result, line 241: continue
                   /\ ToFile(fileIdx + 1, sent, nodes, connections)
                   /\ UNCHANGED <<symbols, symIdx, docTrees>>
    /\ UNCHANGED <<initCaps, reported>>

(* main.rs:263-298: the references response of the current symbol.         *)
GReferencesResponse ==
    /\ UNCHANGED notGraphVars
    /\ gpc = "awaitRefs"
    /\ \E r \in RefResponses :
         /\ gLast' = [k |-> r.k, at |-> Len(sent)]
         /\ CASE Propagates(r.k) ->
                   /\ gpc' = "failed"
                   /\ UNCHANGED <<sent, fileIdx, symbols, symIdx, nodes,
                                  connections, outNodes, outEdges, reported>>
              [] r.k = "refs" ->
                   /\ reported' = reported \cup {<<d, Files[fileIdx]>> : d \in r.docs}
                   /\ ToSymbol(symIdx + 1, symbols,
                               nodes \cup r.docs,
                               connections \cup
                                  {[src |-> d, dst |-> Files[fileIdx]] :
                                      d \in {x \in r.docs : x # Files[fileIdx]}})
              [] OTHER ->
                   \* no result, line 284: continue
                   /\ ToSymbol(symIdx + 1, symbols, nodes, connections)
                   /\ UNCHANGED reported
    /\ UNCHANGED <<initCaps, docTrees>>

GraphNext ==
    \/ GSendInitialize
    \/ GInitializeResponse
    \/ GSymbolsResponse
    \/ GReferencesResponse

----------------------------------------------------------------------------
(* Properties of the reference graph builder                               *)

(* C8: when the initialize response lacks the document-symbol provider or  *)
(* the references provider, the builder has returned an error and neither  *)
(* initialized nor didOpen, documentSymbol or references was sent, and     *)
(* nothing was returned.                                                   *)
C8_CapabilityGate ==
    (initCaps.k = "caps" /\ ~(initCaps.docSym /\ initCaps.refs)) =>
        /\ gpc = "failed"
        /\ \A k \in DOMAIN sent :
              sent[k].method \notin {"initialized", "didOpen", "documentSymbol",
                                     "references"}
        /\ outNodes = {} /\ outEdges = {}

(* C8 witness: the server has a document-symbol provider but no references *)
(* provider, and the run was aborted.                                      *)
C8_Witness ==
    /\ initCaps.k = "caps"
    /\ initCaps.docSym
    /\ ~initCaps.refs
    /\ gpc = "failed"
    /\ Len(sent) = 1

(* A document in the directory tree of the root: the root path, a `/`, and *)
(* more.                                                                   *)
UnderRoot(u) ==
    /\ Len(u) > Len(Root)
    /\ SubSeq(u, 1, Len(Root)) = Root
    /\ u[Len(Root) + 1] = "/"

RelativeToRoot(u) == SubSeq(u, Len(Root) + 1, Len(u))

(* C9: the returned edge set is exactly the pairs (R, D), R different from *)
(* D, both under the root, such that the server reported a reference in R  *)
(* to a symbol declared in D; no edge has equal endpoints.                 *)
C9_EdgesExactlyReported ==
    gpc = "done" =>
        /\ outEdges =
             {[src |-> RelativeToRoot(q[1]), dst |-> RelativeToRoot(q[2])] :
                 q \in {r \in reported :
                          r[1] # r[2] /\ UnderRoot(r[1]) /\ UnderRoot(r[2])}}
        /\ \A e \in outEdges : e.src # e.dst

(* The positions of all symbols of a tree, at every depth.                 *)
RECURSIVE AllPositions(_)
AllPositions(tree) ==
    UNION {{tree[i].pos} \cup AllPositions(tree[i].children) : i \in DOMAIN tree}

(* C10: when the run is through, a references request was sent for every   *)
(* symbol, at every depth, of every nested tree the server returned.       *)
C10_ReferencesForEverySymbol ==
    gpc = "done" =>
        \A i \in DOMAIN docTrees :
            \A p \in AllPositions(docTrees[i]) :
                \E k \in DOMAIN sent : sent[k] = Sent("references", Files[i], p)

(* C11: every returned node and every endpoint of a returned edge is the   *)
(* URI, with the root URI removed, of a document the run met that lies in  *)
(* the directory tree of the root; none stands for a document outside that *)
(* tree, such as one in a sibling directory whose name begins with the     *)
(* root's name.                                                            *)
C11_OutputsUnderRoot ==
    gpc = "done" =>
        \A n \in outNodes \cup {e.src : e \in outEdges} \cup {e.dst : e \in outEdges} :
            \E u \in nodes : UnderRoot(u) /\ n = RelativeToRoot(u)

(* C26: in the graph builder both endpoints of every edge are in the node  *)
(* set, after every step of the accumulation and, for the returned edges   *)
(* and nodes, after the finalization.                                      *)
C26_EdgeEndpointsAreNodes ==
    /\ \A c \in connections : c.src \in nodes /\ c.dst \in nodes
    /\ \A e \in outEdges : e.src \in outNodes /\ e.dst \in outNodes

(* C26 witness: a run returned an edge, and the finalization dropped a     *)
(* connection whose source has not the root prefix.                        *)
C26_Witness ==
    /\ gpc = "done"
    /\ outEdges # {}
    /\ \E c \in connections : StripPrefix(c.src, Root) = <<>>

(* The messages of the graph builder that are requests: the others are    *)
(* notifications, which have no response.                                  *)
IsRequest(m) == m.method \in {"initialize", "documentSymbol", "references"}

(* The requests sent since the last response was received.                 *)
Outstanding == {k \in DOMAIN sent : k > gLast.at /\ IsRequest(sent[k])}

(* C21: the graph builder sends `initialize` first and once; `initialized` *)
(* only after the initialize response has been received; for every file    *)
(* `didOpen` before that file's `documentSymbol`; a `references` request   *)
(* for a symbol of a file only after that file's documentSymbol response   *)
(* has been received; and at most one request is outstanding at any time.  *)
C21_MessageOrder ==
    /\ \A k \in DOMAIN sent : (sent[k].method = "initialize") <=> (k = 1)
    /\ \A k \in DOMAIN sent :
          sent[k].method = "initialized" => (k > 1 /\ initCaps.k = "caps")
    /\ \A k \in DOMAIN sent :
          sent[k].method = "documentSymbol" =>
              \E j \in 1..(k - 1) : sent[j] = Sent("didOpen", sent[k].uri, 0)
    /\ \A k \in DOMAIN sent :
          sent[k].method = "references" =>
              \E i \in DOMAIN docTrees :
                 /\ Files[i] = sent[k].uri
                 /\ \E j \in 1..(k - 1) :
                       sent[j] = Sent("documentSymbol", sent[k].uri, 0)
    /\ Cardinality(Outstanding) <= 1
    /\ gpc \in {"awaitInit", "awaitSymbols", "awaitRefs"} =>
          Outstanding = {Len(sent)}
    /\ gpc \in {"done", "failed", "panicked"} => Outstanding = {}

(* C21 witness: a run that went through both files and asked for the       *)
(* references of a symbol of each of them.                                 *)
C21_Witness ==
    /\ gpc = "done"
    /\ \A i \in DOMAIN Files :
          \E k \in DOMAIN sent :
             sent[k].method = "references" /\ sent[k].uri = Files[i]

----------------------------------------------------------------------------
(* Usage scores: calc_fn_usage of fn-usage/src/lib.rs                      *)

MaxItems == 3   \* length of fn_items
MaxEdges == 2   \* length of fn_calls

(* A CallHierarchyItem, by the fields that tell items apart: the document, *)
(* the selection range and the kind.                                       *)
Item(uri, sr, kind) == [uri |-> uri, selection_range |-> sr, kind |-> kind]

(* f in a.txt and g in b.txt stand at the same place of their files; h is  *)
(* below f in a.txt.                                                       *)
ItemF == Item("a.txt", 1, "FUNCTION")
ItemG == Item("b.txt", 1, "FUNCTION")
ItemH == Item("a.txt", 2, "METHOD")

Items == {ItemF, ItemG, ItemH}

ListsOf(S, n) == UNION {[1..k -> S] : k \in 0..n}

(* The arguments calc_fn_usage may be called with.                         *)
ItemLists == ListsOf(Items, MaxItems)
CallLists == ListsOf(Items \X Items, MaxEdges)

(* Before the call: no arguments yet.                                      *)
UsageIdle ==
    /\ upc = "start"
    /\ fn_items = <<>>
    /\ fn_calls = <<>>
    /\ usage_nodes = <<>>
    /\ graph = <<>>
    /\ usage = <<>>

(* calc_fn_usage is entered with some arguments.                           *)
UsageInit ==
    /\ upc = "start"
    /\ fn_items \in ItemLists
    /\ fn_calls \in CallLists
    /\ usage_nodes = <<>>
    /\ graph = <<>>
    /\ usage = <<>>

(* lib.rs:175-178 and 180-183: the index of the first node whose item has  *)
(* the selection range of `item`; <<>> is None, <<i>> is Some.             *)
FindNode(ns, item) ==
    LET hits == {i \in DOMAIN ns : ns[i].selection_range = item.selection_range}
    IN  IF hits = {} THEN <<>>
        ELSE <<CHOOSE i \in hits : \A j \in hits : i <= j>>

(* The nodes a depth-first search from the set S visits.                   *)
RECURSIVE Visited(_, _)
Visited(edges, S) ==
    LET T == S \cup {edges[k][2] : k \in {x \in DOMAIN edges : edges[x][1] \in S}}
    IN  IF T = S THEN S ELSE Visited(edges, T)

(* petgraph::algo::has_path_connecting (lib.rs:194): the search starts at  *)
(* `from` and yields it first, so every node is connected to itself.       *)
HasPathConnecting(edges, from, to) == to \in Visited(edges, {from})

(* lib.rs:192-198 without the `- 1`.                                       *)
UsageOfNoMinusOne(count, len) == [num |-> count, den |-> len]

(* lib.rs:192-198: (count - 1) as f32 / nodes.len() as f32 * 100., kept    *)
(* as the fraction num / den of 100.                                       *)
UsageOf(count, len) == [num |-> count - 1, den |-> len]

(* The score in percent is 100 * num / den.                                *)
Score100(u) == [num |-> 100 * u.num, den |-> u.den]

(* lib.rs:167-172: one graph node per entry of fn_items.                   *)
UBuildNodes ==
    /\ UNCHANGED notUsageVars
    /\ upc = "start"
    /\ usage_nodes' = fn_items
    /\ upc' = "edges"
    /\ UNCHANGED <<fn_items, fn_calls, graph, usage>>

(* lib.rs:174-187: one iteration of the loop over fn_calls; unwrap()       *)
(* panics when no node has the selection range of an endpoint.             *)
UAddEdge ==
    /\ UNCHANGED notUsageVars
    /\ upc = "edges"
    /\ Len(graph) < Len(fn_calls)
    /\ LET call == fn_calls[Len(graph) + 1]
           src_node == FindNode(usage_nodes, call[1])
           dst_node == FindNode(usage_nodes, call[2])
       IN  IF src_node = <<>> \/ dst_node = <<>>
           THEN /\ upc' = "panicked"
                /\ UNCHANGED graph
           ELSE /\ graph' = Append(graph, <<src_node[1], dst_node[1]>>)
                /\ UNCHANGED upc
    /\ UNCHANGED <<fn_items, fn_calls, usage_nodes, usage>>

(* lib.rs:189-202: the loop over fn_calls is through; every node gets its  *)
(* usage.                                                                  *)
UScore ==
    /\ UNCHANGED notUsageVars
    /\ upc = "edges"
    /\ Len(graph) = Len(fn_calls)
    /\ usage' = [i \in DOMAIN usage_nodes |->
                   LET count == Cardinality({other \in DOMAIN usage_nodes :
                                               HasPathConnecting(graph, other, i)})
                       u == UsageOf(count, Len(usage_nodes))
                   IN  [item |-> usage_nodes[i], num |-> u.num, den |-> u.den]]
    /\ upc' = "done"
    /\ UNCHANGED <<fn_items, fn_calls, usage_nodes, graph>>

UsageNext ==
    \/ UBuildNodes
    \/ UAddEdge
    \/ UScore

----------------------------------------------------------------------------
(* Properties of calc_fn_usage                                             *)

RangeOf(seq) == {seq[i] : i \in DOMAIN seq}

(* A walk of at most k edges of E leads from m to n.                       *)
RECURSIVE Walk(_, _, _, _)
Walk(E, m, n, k) ==
    /\ k > 0
    /\ \/ <<m, n>> \in E
       \/ \E e \in E : e[1] = m /\ Walk(E, e[2], n, k - 1)

(* The call graph the arguments describe: the items, and a call edge from  *)
(* caller item to callee item.                                             *)
CallNodes == RangeOf(fn_items)
CallEdges == RangeOf(fn_calls)

(* The items other than N from which call edges lead to N.                 *)
Callers(N) == {M \in CallNodes \ {N} : Walk(CallEdges, M, N, Cardinality(CallNodes))}

(* C12: calc_fn_usage gives every node N the score                         *)
(* 100 * |{M # N : call edges lead from M to N}| / (number of nodes); the  *)
(* item list names every node once.                                        *)
C12_ScoreIsReachingShare ==
    (upc = "done" /\ Cardinality(CallNodes) = Len(fn_items)) =>
        \A i \in DOMAIN usage :
            /\ usage[i].item = fn_items[i]
            /\ Score100(usage[i]).num * Cardinality(CallNodes)
                  = 100 * Cardinality(Callers(fn_items[i])) * Score100(usage[i]).den

(* C13: in the graph calc_fn_usage builds, every call edge joins the node  *)
(* of its caller item and the node of its callee item, items being equal   *)
(* when document, range and kind are equal, and there is one node for each *)
(* distinct item.                                                          *)
C13_NodeIdentityIsStructural ==
    upc \in {"edges", "done"} =>
        /\ \A k \in DOMAIN graph :
              /\ usage_nodes[graph[k][1]] = fn_calls[k][1]
              /\ usage_nodes[graph[k][2]] = fn_calls[k][2]
        /\ Len(usage_nodes) = Cardinality(CallNodes)

(* The edges of the graph as built, between node indices.                  *)
BuiltEdges == RangeOf(graph)

C27_ScoresMonotoneAlongCalls ==
    upc = "done" =>
        \A i, j \in DOMAIN usage :
            /\ <<usage[i].item, usage[j].item>> \in CallEdges =>
                  Score100(usage[j]).num * Score100(usage[i]).den
                      >= Score100(usage[i]).num * Score100(usage[j]).den
            /\ ( /\ Walk(CallEdges, usage[i].item, usage[j].item, Len(fn_calls))
                 /\ Walk(CallEdges, usage[j].item, usage[i].item, Len(fn_calls)) ) =>
                  Score100(usage[j]).num * Score100(usage[i]).den
                      = Score100(usage[i]).num * Score100(usage[j]).den

----------------------------------------------------------------------------
(* Call collection: get_project_functions and get_function_calls of        *)
(* fn-usage/src/lib.rs                                                     *)

MaxCallers == 2   \* calls in one incomingCalls response

(* project_files and root_path of the run.                                 *)
ProjectFiles == <<DocA, DocB>>
RootPath == Root

(* str::starts_with (lib.rs:143).                                          *)
StartsWith(u, prefix) ==
    Len(u) >= Len(prefix) /\ SubSeq(u, 1, Len(prefix)) = prefix

(* lib.rs:45, 56, 101.                                                     *)
IsFunctionKind(kind) == kind \in {"FUNCTION", "METHOD"}

(* The outcomes of awaiting a request that are no result: the outer Err of *)
(* the client, a JSON-RPC error object, a null result.                     *)
NoResultKinds == {"transport", "error", "null"}

(* The flat documentSymbol results the server may send for a file.         *)
FlatSymbols ==
    { <<>>,
      <<Sym(1, "FUNCTION", <<>>)>>,
      <<Sym(1, "VARIABLE", <<>>), Sym(2, "METHOD", <<>>)>> }

(* Outcomes of awaiting a documentSymbol request.                          *)
FnSymbolResponses ==
    [k : NoResultKinds, syms : {<<>>}]
        \cup [k : {"flat"}, syms : FlatSymbols]
        \cup [k : {"nested"}, syms : SymbolTrees]

(* Outcomes of awaiting prepareCallHierarchy at position p of document     *)
(* uri.                                                                    *)
PrepareResponses(uri, p) ==
    [k : NoResultKinds, items : {<<>>}]
        \cup [k : {"items"},
              items : { <<>>,
                        <<Item(uri, p, "FUNCTION")>>,
                        <<Item(uri, p, "VARIABLE")>>,
                        <<Item(uri, p, "VARIABLE"), Item(uri, p, "METHOD")>> }]

(* The callers a server may report: a function in some document.           *)
CallerItems == {Item(d, 3, "FUNCTION") : d \in {DocB, Sibling, Outside}}

(* Outcomes of awaiting incomingCalls: `from` of every call of the result. *)
CallsResponses ==
    [k : NoResultKinds, from : {<<>>}]
        \cup [k : {"calls"}, from : ListsOf(CallerItems, MaxCallers)]

(* lib.rs:44-48: the functions and methods of a flat result.               *)
RECURSIVE FlatFunctions(_, _)
FlatFunctions(uri, flat) ==
    IF flat = <<>> THEN <<>>
    ELSE (IF IsFunctionKind(Head(flat).kind) THEN <<<<uri, Head(flat).pos>>>> ELSE <<>>)
            \o FlatFunctions(uri, Tail(flat))

(* lib.rs:50-64: walk_nested_symbols, the functions and methods at every   *)
(* depth, in document order.                                               *)
RECURSIVE walk_nested_symbols(_, _)
walk_nested_symbols(uri, nested) ==
    IF nested = <<>> THEN <<>>
    ELSE (IF IsFunctionKind(Head(nested).kind)
          THEN <<<<uri, Head(nested).pos>>>> ELSE <<>>)
            \o walk_nested_symbols(uri, Head(nested).children)
            \o walk_nested_symbols(uri, Tail(nested))

(* lib.rs:100-101.                                                         *)
RECURSIVE FilterFunctions(_)
FilterFunctions(items) ==
    IF items = <<>> THEN <<>>
    ELSE (IF IsFunctionKind(Head(items).kind) THEN <<Head(items)>> ELSE <<>>)
            \o FilterFunctions(Tail(items))

(* lib.rs:134-147: the calls of a result that pass the test of the caller. *)
RECURSIVE KeptCalls(_, _)
KeptCalls(from, symbol) ==
    IF from = <<>> THEN <<>>
    ELSE (IF StartsWith(Head(from).uri, RootPath)
          THEN <<<<Head(from), symbol>>>> ELSE <<>>)
            \o KeptCalls(Tail(from), symbol)

FSent(method, uri, p) == [method |-> method, uri |-> uri, pos |-> p]

(* A future of the run: the i-th documentSymbol ("sym"),                   *)
(* prepareCallHierarchy ("prep") or incomingCalls ("calls") request made.  *)
Fut(kind, i) == <<kind, i>>

CallsInit ==
    /\ fpc = "start"
    /\ eager = FALSE
    /\ fsent = <<>>
    /\ ffile = 0
    /\ fsymbols = <<>>
    /\ fsym = 0
    /\ fn_call_items = <<>>
    /\ fn_calls_futures = <<>>
    /\ ffut = 0
    /\ found_calls = <<>>
    /\ fLast = NoResponse
    /\ freported = {}
    /\ pending = {}
    /\ inbox = <<>>
    /\ arrivedOrder = <<>>

(* A request made by client.request() goes out when it is made (eager) or *)
(* when its future is first awaited.                                       *)
SentWhenMade(reqs) == IF eager THEN reqs ELSE <<>>
SentWhenAwaited(reqs) == IF eager THEN <<>> ELSE reqs

IncomingCallsRequests(items) ==
    [i \in DOMAIN items |->
        FSent("incomingCalls", items[i].uri, items[i].selection_range)]

(* The responses that have arrived for futures of one kind, in the order   *)
(* of arrival.                                                             *)
ArrivedOfKind(kind) == SelectSeq(arrivedOrder, LAMBDA n : n[1] = kind)

(* The loops await whichever response of the kind arrives j-th (future 0  *)
(* stands for the one that has not arrived yet).                           *)
NextArrived(kind, j) ==
    IF j <= Len(ArrivedOfKind(kind)) THEN ArrivedOfKind(kind)[j] ELSE Fut(kind, 0)

(* lib.rs:29 and 129: the loops go over the futures in the order they were *)
(* pushed, so iteration j awaits the j-th future made.                     *)
NextFuture(kind, j) == Fut(kind, j)

(* lib.rs:43-68: the functions and methods of a documentSymbol result.     *)
FunctionsOf(uri, r) ==
    IF r.k = "flat" THEN FlatFunctions(uri, r.syms)
                    ELSE walk_nested_symbols(uri, r.syms)

(* The outcomes the await of a future may have.                            *)
ResponsesFor(fut) ==
    CASE fut[1] = "sym"   -> FnSymbolResponses
      [] fut[1] = "prep"  -> PrepareResponses(fsymbols[fut[2]][1], fsymbols[fut[2]][2])
      [] fut[1] = "calls" -> CallsResponses

(* The loop of lib.rs:129 arrives at iteration j: a future is awaited, or, *)
(* past the last one, (fn_call_items, fn_calls) is returned (line 160).    *)
ToAwait(j, sentNow, pendNow, futs) ==
    /\ ffut' = j
    /\ IF j > Len(futs)
       THEN /\ fpc' = "done"
            /\ fsent' = sentNow
            /\ pending' = pendNow
       ELSE /\ fpc' = "awaitCalls"
            /\ fsent' = sentNow \o SentWhenAwaited(IncomingCallsRequests(<<futs[j]>>))
            /\ pending' = pendNow \cup (IF eager THEN {} ELSE {Fut("calls", j)})

(* The loop of lib.rs:84 arrives at symbol i: prepareCallHierarchy is      *)
(* requested and awaited (lines 85-97), or, past the last symbol, the loop *)
(* of line 129 begins.                                                     *)
ToPrepare(i, sentNow, pendNow, futs) ==
    /\ fsym' = i
    /\ IF i > Len(fsymbols)
       THEN ToAwait(1, sentNow, pendNow, futs)
       ELSE /\ fpc' = "awaitPrepare"
            /\ fsent' = Append(sentNow, FSent("prepareCallHierarchy",
                                              fsymbols[i][1], fsymbols[i][2]))
            /\ pending' = pendNow \cup {Fut("prep", i)}
            /\ UNCHANGED ffut

(* lib.rs:11-30: a documentSymbol request is made for every file, then the *)
(* first one is awaited.                                                   *)
FStart ==
    /\ UNCHANGED notCallsVars
    /\ fpc = "start"
    /\ eager' \in BOOLEAN
    /\ LET reqs == [i \in DOMAIN ProjectFiles |->
                      FSent("documentSymbol", ProjectFiles[i], 0)]
       IN  /\ fsent' = IF eager' THEN reqs ELSE <<reqs[1]>>
           /\ pending' = IF eager' THEN {Fut("sym", i) : i \in DOMAIN ProjectFiles}
                                   ELSE {Fut("sym", 1)}
    /\ ffile' = 1
    /\ fpc' = "awaitSymbols"
    /\ UNCHANGED <<fsymbols, fsym, fn_call_items, fn_calls_futures, ffut,
                   found_calls, fLast, freported, inbox, arrivedOrder>>

(* The response to a request that is out arrives, or the request fails in  *)
(* the client: the outcome is held for the future that made the request,   *)
(* whichever future the program is awaiting.                               *)
FArrive ==
    /\ UNCHANGED notCallsVars
    /\ fpc \notin {"done", "panicked"}
    /\ \E fut \in pending :
         \E r \in ResponsesFor(fut) :
            /\ inbox' = [n \in DOMAIN inbox \cup {fut} |->
                            IF n = fut THEN r ELSE inbox[n]]
            /\ pending' = pending \ {fut}
            /\ arrivedOrder' = Append(arrivedOrder, fut)
    /\ UNCHANGED <<fpc, eager, fsent, ffile, fsymbols, fsym, fn_call_items,
                   fn_calls_futures, ffut, found_calls, fLast, freported>>

(* lib.rs:29-69: one iteration of the loop over symbol_futures; the        *)
(* function returns `symbols` after the last file.                         *)
FSymbolsResponse ==
    /\ UNCHANGED notCallsVars
    /\ fpc = "awaitSymbols"
    /\ NextFuture("sym", ffile) \in DOMAIN inbox
    /\ LET fut == NextFuture("sym", ffile)
           r   == inbox[fut]
           uri == ProjectFiles[fut[2]]
       IN
         /\ fLast' = [k |-> r.k, at |-> Len(fsent)]
         /\ IF r.k \in NoResultKinds
            THEN \* lines 30 (unwrap), 32 and 37: panic
                 /\ fpc' = "panicked"
                 /\ UNCHANGED <<fsent, ffile, fsymbols, pending>>
            ELSE /\ fsymbols' = fsymbols \o FunctionsOf(uri, r)
                 /\ IF ffile < Len(ProjectFiles)
                    THEN /\ ffile' = ffile + 1
                         /\ fsent' = fsent \o SentWhenAwaited(
                                <<FSent("documentSymbol", ProjectFiles[ffile + 1], 0)>>)
                         /\ pending' = pending \cup
                                (IF eager THEN {} ELSE {Fut("sym", ffile + 1)})
                         /\ UNCHANGED fpc
                    ELSE /\ fpc' = "symbolsDone"
                         /\ UNCHANGED <<fsent, ffile, pending>>
    /\ UNCHANGED <<eager, fsym, fn_call_items, fn_calls_futures, ffut,
                   found_calls, freported, inbox, arrivedOrder>>

(* get_function_calls is called with the symbols get_project_functions     *)
(* returned (lib.rs:74-84).                                                *)
FGetFunctionCalls ==
    /\ UNCHANGED notCallsVars
    /\ fpc = "symbolsDone"
    /\ ToPrepare(1, fsent, pending, fn_calls_futures)
    /\ UNCHANGED <<eager, ffile, fsymbols, fn_call_items, fn_calls_futures,
                   found_calls, fLast, freported, inbox, arrivedOrder>>

(* lib.rs:85-126: the prepareCallHierarchy response of the current symbol; *)
(* an incomingCalls request is made for every function among the items.    *)
FPrepareResponse ==
    /\ UNCHANGED notCallsVars
    /\ fpc = "awaitPrepare"
    /\ Fut("prep", fsym) \in DOMAIN inbox
    /\ LET r == inbox[Fut("prep", fsym)]
       IN
         /\ fLast' = [k |-> r.k, at |-> Len(fsent)]
         /\ IF r.k \in NoResultKinds
            THEN \* lines 96 (unwrap), 102 and 107 (todo!()): panic
                 /\ fpc' = "panicked"
                 /\ UNCHANGED <<fsent, fsym, fn_call_items, fn_calls_futures, ffut,
                                pending>>
            ELSE LET items == FilterFunctions(r.items)
                     made_ == {Fut("calls", Len(fn_calls_futures) + i) :
                                  i \in DOMAIN items}
                 IN  /\ fn_call_items' = fn_call_items \o items
                     /\ fn_calls_futures' = fn_calls_futures \o items
                     /\ ToPrepare(fsym + 1,
                                  fsent \o SentWhenMade(IncomingCallsRequests(items)),
                                  pending \cup (IF eager THEN made_ ELSE {}),
                                  fn_calls_futures \o items)
    /\ UNCHANGED <<eager, ffile, fsymbols, found_calls, freported, inbox,
                   arrivedOrder>>

(* lib.rs:129-158: one iteration of the loop over fn_calls_futures.        *)
FCallsResponse ==
    /\ UNCHANGED notCallsVars
    /\ fpc = "awaitCalls"
    /\ NextFuture("calls", ffut) \in DOMAIN inbox
    /\ LET fut    == NextFuture("calls", ffut)
           r      == inbox[fut]
           symbol == fn_calls_futures[fut[2]]
       IN
         /\ fLast' = [k |-> r.k, at |-> Len(fsent)]
         /\ IF r.k \in NoResultKinds
            THEN \* lines 130 (unwrap), 150 (todo!()) and 156: panic
                 /\ fpc' = "panicked"
                 /\ UNCHANGED <<fsent, ffut, found_calls, freported, pending>>
            ELSE /\ found_calls' = found_calls \o KeptCalls(r.from, symbol)
                 /\ freported' = freported \cup
                       {<<r.from[i], symbol>> : i \in DOMAIN r.from}
                 /\ ToAwait(ffut + 1, fsent, pending, fn_calls_futures)
    /\ UNCHANGED <<eager, ffile, fsymbols, fsym, fn_call_items, fn_calls_futures,
                   inbox, arrivedOrder>>

CallsNext ==
    \/ FStart
    \/ FArrive
    \/ FSymbolsResponse
    \/ FGetFunctionCalls
    \/ FPrepareResponse
    \/ FCallsResponse

----------------------------------------------------------------------------
(* Properties of the call collection and of a run as a whole               *)

(* C15: the returned call edges are exactly the pairs (caller item,        *)
(* queried item) of the incoming calls the server reported whose caller    *)
(* document lies under the root; a call from a document outside the root   *)
(* yields no edge.                                                         *)
C15_CallersUnderRoot ==
    fpc = "done" =>
        RangeOf(found_calls) = {q \in freported : UnderRoot(q[1].uri)}

(* C16: a null result of a per-item query (documentSymbol, references,     *)
(* prepareCallHierarchy, incomingCalls) never ends the run, in the graph   *)
(* builder as in the call collection: the run goes on with the next item.  *)
C16_NullResultSkipsItem ==
    /\ gLast.k = "null" => gpc \notin {"failed", "panicked"}
    /\ fLast.k = "null" => fpc # "panicked"

FailureKinds == {"transport", "error"}

(* C17: once a request has returned a transport error or a JSON-RPC error  *)
(* object the run is over with an error: nothing is sent after the         *)
(* response, the failed request included, and neither nodes and edges nor  *)
(* the call lists the scores are computed from are returned.               *)
C17_FailedRequestEndsRun ==
    /\ gLast.k \in FailureKinds =>
          /\ gpc = "failed"
          /\ Len(sent) = gLast.at
          /\ outNodes = {} /\ outEdges = {}
    /\ fLast.k \in FailureKinds =>
          /\ fpc = "panicked"
          /\ Len(fsent) = fLast.at

(* C17 witness: a references request in the middle of a run was answered   *)
(* with a JSON-RPC error after nodes had been collected.                   *)
C17_Witness ==
    /\ gLast.k = "error"
    /\ gpc = "failed"
    /\ sent[Len(sent)].method = "references"
    /\ Cardinality(nodes) > 1

(* The declarations of the first n files, from the response each file's    *)
(* request got: file-list order, document order within a file.             *)
RECURSIVE SymbolsUpTo(_)
SymbolsUpTo(n) ==
    IF n = 0 THEN <<>>
    ELSE SymbolsUpTo(n - 1) \o FunctionsOf(ProjectFiles[n], inbox[Fut("sym", n)])

(* The callable items of the first n declarations, from the response each  *)
(* declaration's prepareCallHierarchy request got.                         *)
RECURSIVE ItemsUpTo(_)
ItemsUpTo(n) ==
    IF n = 0 THEN <<>>
    ELSE ItemsUpTo(n - 1) \o FilterFunctions(inbox[Fut("prep", n)].items)

(* The edges of the first n items, from the response each item's           *)
(* incomingCalls request got.                                              *)
RECURSIVE EdgesUpTo(_)
EdgesUpTo(n) ==
    IF n = 0 THEN <<>>
    ELSE EdgesUpTo(n - 1) \o
            KeptCalls(inbox[Fut("calls", n)].from, fn_call_items[n])

(* The futures whose request has been sent.                                *)
RequestOut == pending \cup DOMAIN inbox

C25_EdgeEndpointsAreItems ==
    fpc = "done" =>
        \A k \in DOMAIN found_calls :
            /\ found_calls[k][1] \in RangeOf(fn_call_items)
            /\ found_calls[k][2] \in RangeOf(fn_call_items)
            /\ FindNode(fn_call_items, found_calls[k][1]) # <<>>
            /\ FindNode(fn_call_items, found_calls[k][2]) # <<>>

(* Future a's response arrived before future b's.                          *)
ArrivedBefore(a, b) ==
    \E m, n \in DOMAIN arrivedOrder :
        m < n /\ arrivedOrder[m] = a /\ arrivedOrder[n] = b

----------------------------------------------------------------------------
(* The three workers of stdio_client (lsp-client/src/clients/stdio.rs):    *)
(* the Writer (lines 24-30), the Reader (stdout_proxy, above) and the      *)
(* Error Relay (lines 35-41), with the stop flag they share.               *)

MaxOut      == 2   \* messages the client puts into the outbound queue
MaxErrLines == 1   \* lines the child writes to its stderr
FrameLen    == 2   \* bytes of one outbound frame

(* What the Reader's variables do in a step of another worker.             *)
ReaderIdle ==
    UNCHANGED <<stream, closed, pos, rdState, next_content_length,
                next_content_type, bytes_left, content, inbound, frames,
                hdrStyle, junk, hdrLines, readAtEof, rdTested>>

WorkersInit ==
    /\ wpc = "test"
    /\ outq = <<>>
    /\ tx_alive = TRUE
    /\ made = 0
    /\ stdin_written = <<>>
    /\ epc = "test"
    /\ errPending = 0
    /\ errLines = 0
    /\ errClosed = FALSE

(* The host sets the flag (stop_flag.store(true)): the only writer of it.  *)
SetStopFlag ==
    /\ UNCHANGED notWorkerVars
    /\ ~stop_flag
    /\ stop_flag' = TRUE
    /\ ReaderIdle
    /\ UNCHANGED workerVars

(* The client enqueues a frame (client_tx.send).                           *)
ClientSend ==
    /\ UNCHANGED notWorkerVars
    /\ tx_alive
    /\ made < MaxOut
    /\ made' = made + 1
    /\ outq' = Append(outq, made + 1)
    /\ ReaderIdle /\ UNCHANGED stop_flag
    /\ UNCHANGED <<wpc, tx_alive, stdin_written, epc, errPending, errLines, errClosed>>

(* The Client, and client_tx with it, is dropped.                          *)
ClientDrop ==
    /\ UNCHANGED notWorkerVars
    /\ tx_alive
    /\ tx_alive' = FALSE
    /\ ReaderIdle /\ UNCHANGED stop_flag
    /\ UNCHANGED <<wpc, outq, made, stdin_written, epc, errPending, errLines, errClosed>>

(* The child writes a line to its stderr.                                  *)
ServerWriteErr ==
    /\ UNCHANGED notWorkerVars
    /\ ~errClosed
    /\ errLines < MaxErrLines
    /\ errLines' = errLines + 1
    /\ errPending' = errPending + 1
    /\ ReaderIdle /\ UNCHANGED stop_flag
    /\ UNCHANGED <<wpc, outq, tx_alive, made, stdin_written, epc, errClosed>>

(* The child's stderr ends.                                                *)
ServerCloseErr ==
    /\ UNCHANGED notWorkerVars
    /\ ~errClosed
    /\ errClosed' = TRUE
    /\ ReaderIdle /\ UNCHANGED stop_flag
    /\ UNCHANGED <<wpc, outq, tx_alive, made, stdin_written, epc, errPending, errLines>>

(* stdio.rs:25: the Writer loads the flag at the top of its loop.          *)
WriterTest ==
    /\ UNCHANGED notWorkerVars
    /\ wpc = "test"
    /\ wpc' = IF stop_flag THEN "stopped" ELSE "recv"
    /\ ReaderIdle /\ UNCHANGED stop_flag
    /\ UNCHANGED <<outq, tx_alive, made, stdin_written, epc, errPending, errLines,
                   errClosed>>

(* recv_timeout gives Ok(msg) only while the Reader is in no read: the two *)
(* threads made to share one lock.                                         *)
RecvOkUnderReaderLock(q) == q # <<>> /\ rdState \notin {"header", "body"}

(* stdio.rs:26: client_rx.recv_timeout(10ms) gives Ok(msg) when the queue  *)
(* holds a message, also after the sender is gone.                         *)
RecvOk(q) == q # <<>>

(* stdio.rs:27, msg.as_bytes(): the bytes of frame m, each one named by    *)
(* its frame and its place in it.                                          *)
FrameBytes(m) == [i \in 1..FrameLen |-> <<m, i>>]

(* The receiver as a stack: the message enqueued last.                     *)
ReceivedLast(q) == q[Len(q)]

(* stdio.rs:26: the message recv_timeout gives, the oldest one of the      *)
(* channel.                                                                *)
Received(q) == Head(q)

(* stdio.rs:26-27: the Writer takes the next message and writes it to the  *)
(* child's stdin; write_all fails after some of the bytes, possibly none,  *)
(* and unwrap() panics, when the child has gone (its stdout has ended).    *)
WriterRecvMsg ==
    /\ UNCHANGED notWorkerVars
    /\ wpc = "recv"
    /\ RecvOk(outq)
    /\ outq' = Tail(outq)
    /\ \/ /\ stdin_written' = stdin_written \o FrameBytes(Received(outq))
          /\ wpc' = "test"
       \/ /\ closed
          /\ wpc' = "panicked"
          /\ \E n \in 0..(FrameLen - 1) :
                stdin_written' =
                    stdin_written \o SubSeq(FrameBytes(Received(outq)), 1, n)
    /\ ReaderIdle /\ UNCHANGED stop_flag
    /\ UNCHANGED <<tx_alive, made, epc, errPending, errLines, errClosed>>

(* stdio.rs:26: recv_timeout gives Err, Timeout after 10 ms on an empty    *)
(* queue or Disconnected at once when the sender is gone; the loop goes    *)
(* round.                                                                  *)
WriterRecvTimeout ==
    /\ UNCHANGED notWorkerVars
    /\ wpc = "recv"
    /\ ~RecvOk(outq)
    /\ wpc' = "test"
    /\ ReaderIdle /\ UNCHANGED stop_flag
    /\ UNCHANGED <<outq, tx_alive, made, stdin_written, epc, errPending, errLines,
                   errClosed>>

(* stdio.rs:36: the Error Relay loads the flag at the top of its loop.     *)
RelayTest ==
    /\ UNCHANGED notWorkerVars
    /\ epc = "test"
    /\ epc' = IF stop_flag THEN "stopped" ELSE "next"
    /\ ReaderIdle /\ UNCHANGED stop_flag
    /\ UNCHANGED <<wpc, outq, tx_alive, made, stdin_written, errPending, errLines,
                   errClosed>>

(* stdio.rs:37-39: stderr_lines.next() returns with a line, which goes to  *)
(* eprintln!, or with None at the end of the stream; the loop goes round.  *)
RelayNext ==
    /\ UNCHANGED notWorkerVars
    /\ epc = "next"
    /\ errPending > 0 \/ errClosed
    /\ errPending' = IF errPending > 0 THEN errPending - 1 ELSE 0
    /\ epc' = "test"
    /\ ReaderIdle /\ UNCHANGED stop_flag
    /\ UNCHANGED <<wpc, outq, tx_alive, made, stdin_written, errLines, errClosed>>

(* The Reader's steps and the child's writes to stdout, the workers' own   *)
(* variables left alone.  Here the child writes at most one frame, with    *)
(* the header block the encoder makes.                                     *)
ReaderSteps ==
    /\ \/ ReaderTest
       \/ ReadLine
       \/ ReadUntil
       \/ (frames = <<>> /\ ServerWriteFrame /\ hdrStyle' = "none")
       \/ (frames = <<>> /\ ServerWriteTruncated)
       \/ ServerClose
    /\ UNCHANGED workerVars

WorkersNext ==
    \/ SetStopFlag
    \/ ClientSend
    \/ ClientDrop
    \/ ServerWriteErr
    \/ ServerCloseErr
    \/ WriterTest
    \/ WriterRecvMsg
    \/ WriterRecvTimeout
    \/ RelayTest
    \/ RelayNext
    \/ ReaderSteps

----------------------------------------------------------------------------
(* Properties of the workers                                               *)

(* C19: with the stop flag set, a worker that tests it stops and starts no *)
(* other iteration; the Writer is back at the test after one queue poll,   *)
(* whether the queue was empty, held a message or had lost its sender; the *)
(* Error Relay is back at the test when its read returns; and when a read  *)
(* of the Reader returns, the Reader is through or back at the test, it    *)
(* makes no further read.                                                  *)
C19_StopFlagEndsWorkers ==
    [][ stop_flag =>
          /\ (wpc = "test" /\ wpc' # wpc) => wpc' = "stopped"
          /\ (wpc = "recv" /\ wpc' # wpc) => wpc' \in {"test", "panicked"}
          /\ (epc = "test" /\ epc' # epc) => epc' = "stopped"
          /\ (epc = "next" /\ epc' # epc) => epc' = "test"
          /\ ReaderTest => rdState' = "stopped"
          /\ (ReadLine \/ ReadUntil) =>
                \/ rdState' \in {"done", "panicked"}
                \/ rdState' = "header" /\ ~rdTested'
      ]_vars

(* The Reader is inside read_line or read_until and the bytes that would   *)
(* let the call return have not been written.                              *)
ReaderBlocked ==
    /\ ~closed
    /\ \/ rdState = "header" /\ rdTested /\ FirstIdx(Rest, IsLine) = 0
       \/ rdState = "body" /\ FirstIdx(Rest, LAMBDA tok : tok.t = "}") = 0

(* The Error Relay is inside stderr_lines.next() with nothing to read.     *)
RelayBlocked == epc = "next" /\ errPending = 0 /\ ~errClosed

(* C20: while the Reader is blocked in a read of the child's stdout and    *)
(* the Error Relay in a read of its stderr, a Writer that is polling a     *)
(* queue that holds a frame can take and write it, and a Writer at the top *)
(* of its loop can go on; no step of the Error Relay changes the inbound   *)
(* or the outbound queue.                                                  *)
C20_WorkersDoNotBlockEachOther ==
    /\ [](  (ReaderBlocked /\ RelayBlocked) =>
              /\ (wpc = "recv" /\ outq # <<>>) => ENABLED WriterRecvMsg
              /\ wpc = "test" => ENABLED WriterTest )
    /\ [][ (RelayTest \/ RelayNext) => (outq' = outq /\ inbound' = inbound) ]_vars
    /\ [][ (WriterRecvMsg /\ ReaderBlocked /\ RelayBlocked /\ ~closed) =>
              stdin_written' = stdin_written \o FrameBytes(Head(outq)) ]_vars

(* C20 witness: the Writer has written a frame while the Reader was, and   *)
(* still is, blocked in the middle of a body and the Error Relay blocked   *)
(* on an empty stderr.                                                     *)
C20_Witness ==
    /\ ReaderBlocked /\ rdState = "body"
    /\ RelayBlocked
    /\ stdin_written # <<>>
    /\ ~stop_flag

(* The bytes of all frames enqueued so far, in the order of enqueueing.    *)
Enqueued ==
    [k \in 1..(made * FrameLen) |->
        <<((k - 1) \div FrameLen) + 1, ((k - 1) % FrameLen) + 1>>]

(* C23: the bytes written to the child's stdin are always a prefix of the  *)
(* concatenation of the enqueued frames in the order of enqueueing: the    *)
(* Writer neither reorders nor duplicates nor skips a frame, and a frame   *)
(* is cut only by the write error that ends the Writer.                    *)
C23_WrittenIsPrefixOfEnqueued ==
    /\ IsPrefix(stdin_written, Enqueued)
    /\ wpc # "panicked" =>
          /\ Len(stdin_written) % FrameLen = 0
          /\ Len(stdin_written) + FrameLen * Len(outq) = Len(Enqueued)

(* C23 witness: two frames were in the queue at once and the first of them *)
(* has been written.                                                       *)
C23_Witness ==
    /\ made = 2
    /\ Len(outq) = 1
    /\ stdin_written = FrameBytes(1)
    /\ wpc = "recv"

----------------------------------------------------------------------------
(* Specifications                                                          *)

ReaderNext ==
    \/ ReaderTest
    \/ ServerWriteFrame
    \/ ServerWriteTruncated
    \/ ServerWriteBlank
    \/ ServerClose
    \/ ReadLine
    \/ ReadUntil

SpecInit ==
    ClientInit /\ ReaderInit /\ GraphInit /\ UsageIdle /\ CallsInit /\ WorkersInit

SpecClient == SpecInit /\ [][ClientNext]_vars

SpecReader == SpecInit /\ [][ReaderNext]_vars

SpecGraph == SpecInit /\ [][GraphNext]_vars

SpecCalls == SpecInit /\ [][CallsNext]_vars

(* One run of a tool: the reference graph builder or the call collection. *)
RunsNext ==
    \/ (fpc = "start" /\ GraphNext)
    \/ (gpc = "start" /\ CallsNext)

SpecRuns == SpecInit /\ [][RunsNext]_vars

SpecWorkers == SpecInit /\ [][WorkersNext]_vars

(* calc_fn_usage alone, entered with any arguments.                        *)
SpecUsageInit ==
    ClientInit /\ ReaderInit /\ GraphInit /\ UsageInit /\ CallsInit /\ WorkersInit

SpecUsage == SpecUsageInit /\ [][UsageNext]_vars

====
